---- MODULE Spec2Model ----
(***************************************************************************)
(* Model of the sequencescape data-mapper layer:                           *)
(*   - sequencescape/_sqlalchemy/sqlalchemy_mappers.py  (SQLAlchemyMapper) *)
(*   - sequencescape/sqlalchemy/_sqlalchemy_mapper.py   (_SQLAlchemyMapper)*)
(* The database is a set of rows (one table per SQLAlchemy model type,     *)
(* primary key internal_id) plus the study/sample link table.  Each mapper *)
(* operation is one action; it records the call and its outcome.           *)
(***************************************************************************)
EXTENDS Integers, Sequences, FiniteSets, Bags, TLC

VARIABLES
    db,        \* rows of the entity tables
    links,     \* rows of the study/sample link table
    added,     \* history: the models persisted by successful add calls
    op,        \* name of the last operation called
    mapper,    \* model type of the mapper it was called on
    arg,       \* its arguments
    result,    \* bag of models it returned (EmptyBag when it raised)
    err,       \* the error it raised, NoError when it returned
    opened,    \* sessions the call created
    closed,    \* sessions the call closed
    queries    \* queries the call issued

vars == <<db, links, added, op, mapper, arg, result, err, opened, closed, queries>>

(***************************************************************************)
(* Bounds                                                                  *)
(***************************************************************************)
MaxBatch == 2     \* longest list handed to add
MaxValues == 2    \* longest list of property values handed to a retrieval
MaxGiven == 2     \* longest list of studies or samples handed to an association lookup
MaxLinks == 2     \* most rows of the link table
MaxPairs == 2     \* longest list of (id type, id value) pairs given to get_many

(***************************************************************************)
(* Values                                                                  *)
(***************************************************************************)
\* Python's None in an integer position (a model that was never stored).
NoneId == -1
\* Python's None in a string position.
NoneStr == "None"

\* Internal ids used by the model; 0 is the falsy one.
InternalIds == {0, 1}
Names == {"a"}
AccessionNumbers == {"x"}

Property == {"internal_id", "name", "accession_number"}

NoError == "NoError"
\* Error kinds, named after the spec's taxonomy where the code raises
\* ValueError, after the Python exception otherwise.
InvalidArgument == "InvalidArgument"            \* ValueError: bad argument
UnsupportedOperation == "UnsupportedOperation"  \* ValueError: type lacks capability
IntegrityViolation == "IntegrityViolation"      \* ValueError: more than one row
KeyError == "KeyError"
AttributeError == "AttributeError"
TypeError == "TypeError"
DatabaseError == "DatabaseError"                \* raised by the store driver

(***************************************************************************)
(* Model types and their SQLAlchemy equivalents                            *)
(***************************************************************************)
\* Sample and Study are the fully capable types; Library has no accession
\* number; Well has an internal id only; Unversioned stands for a Model
\* subclass whose SQLAlchemy equivalent has no is_current (the case the
\* mappers' checks guard).
ModelTypes == {"Sample", "Study", "Library", "Well", "Unversioned"}

get_equivalent_sqlalchemy_model_type(model_type) ==
    CASE model_type = "Sample" -> "SQLAlchemySample"
      [] model_type = "Study" -> "SQLAlchemyStudy"
      [] model_type = "Library" -> "SQLAlchemyLibrary"
      [] model_type = "Well" -> "SQLAlchemyWell"
      [] model_type = "Unversioned" -> "SQLAlchemyUnversioned"

get_equivalent_popo_model_type(sqlalchemy_type) ==
    CHOOSE t \in ModelTypes : get_equivalent_sqlalchemy_model_type(t) = sqlalchemy_type

\* issubclass(sqlalchemy_type, SQLAlchemyIsCurrentModel)
IsCurrentModel(sqlalchemy_type) == sqlalchemy_type # "SQLAlchemyUnversioned"

\* property in sqlalchemy_type.__dict__
HasProperty(sqlalchemy_type, property) ==
    CASE property = "internal_id" -> TRUE
      [] property = "name" -> sqlalchemy_type # "SQLAlchemyWell"
      [] property = "accession_number" ->
            sqlalchemy_type \notin {"SQLAlchemyLibrary", "SQLAlchemyWell"}

\* A Python object handed to a mapper: a model (type in ModelTypes), None
\* (type "NoneType"), a class object such as Mapper (type "type") or a bare
\* integer (type "int", its value in internal_id).
Object(type, internal_id, name, accession_number, is_current) ==
    [type |-> type, internal_id |-> internal_id, name |-> name,
     accession_number |-> accession_number, is_current |-> is_current]

None == Object("NoneType", NoneId, NoneStr, NoneStr, FALSE)
NonModel == Object("type", NoneId, NoneStr, NoneStr, FALSE)
IntObject(i) == Object("int", i, NoneStr, NoneStr, FALSE)

\* isinstance(object, Model)
IsModel(object) == object.type \in ModelTypes

(***************************************************************************)
(* Model converters                                                        *)
(***************************************************************************)
\* The row a model is stored as: same properties, is_current as an integer.
convert_to_sqlalchemy_model(model) ==
    [table |-> get_equivalent_sqlalchemy_model_type(model.type),
     internal_id |-> model.internal_id,
     name |-> model.name,
     accession_number |-> model.accession_number,
     is_current |-> IF model.is_current THEN 1 ELSE 0]

convert_to_popo_model(row) ==
    Object(get_equivalent_popo_model_type(row.table), row.internal_id, row.name,
           row.accession_number, row.is_current # 0)

\* The list of models of a query result, as a bag (a query without ORDER BY
\* fixes no order).
convert_to_popo_models(rows) ==
    SetToBag({convert_to_popo_model(row) : row \in rows})

Range(seq) == {seq[i] : i \in 1..Len(seq)}

\* What a call leaves behind.
Outcome(res, error, database, nopened, nclosed, nqueries) ==
    [result |-> res, err |-> error, db |-> database,
     opened |-> nopened, closed |-> nclosed, queries |-> nqueries]

(***************************************************************************)
(* The store                                                               *)
(***************************************************************************)
\* session.commit() of the rows added to a session: one transaction that
\* inserts them all, or fails on a primary-key clash and inserts none.
PrimaryKeyClash(database, pending) ==
    \/ \E i \in 1..Len(pending) : \E row \in database :
          row.table = pending[i].table /\ row.internal_id = pending[i].internal_id
    \/ \E i, j \in 1..Len(pending) :
          /\ i < j
          /\ pending[i].table = pending[j].table
          /\ pending[i].internal_id = pending[j].internal_id

session_commit(database, pending) ==
    IF PrimaryKeyClash(database, pending)
    THEN [ok |-> FALSE, db |-> database]
    ELSE [ok |-> TRUE, db |-> database \cup Range(pending)]

(***************************************************************************)
(* SQLAlchemyMapper (sequencescape/_sqlalchemy/sqlalchemy_mappers.py)      *)
(***************************************************************************)
\* The loop of add: convert each model and add it to the session; stops at
\* the first object the converter rejects.
RECURSIVE add_loop(_, _, _)
add_loop(models, i, pending) ==
    IF i > Len(models) THEN [raised |-> FALSE, pending |-> pending]
    ELSE IF ~IsModel(models[i]) THEN [raised |-> TRUE, pending |-> pending]
    ELSE add_loop(models, i + 1, Append(pending, convert_to_sqlalchemy_model(models[i])))

\* A faulty add that commits after every element instead of once.
RECURSIVE add_commit_each_loop(_, _, _)
add_commit_each_loop(database, models, i) ==
    IF i > Len(models) THEN Outcome(EmptyBag, NoError, database, 1, 1, 0)
    ELSE IF ~IsModel(models[i]) THEN Outcome(EmptyBag, InvalidArgument, database, 1, 0, 0)
    ELSE LET committed == session_commit(database, <<convert_to_sqlalchemy_model(models[i])>>)
         IN  IF committed.ok
             THEN add_commit_each_loop(committed.db, models, i + 1)
             ELSE Outcome(EmptyBag, DatabaseError, database, 1, 0, 0)

SQLAlchemyMapper_add_commit_each(database, a) ==
    IF ~a.isList /\ a.items[1] = None
    THEN Outcome(EmptyBag, InvalidArgument, database, 0, 0, 0)
    ELSE add_commit_each_loop(database, a.items, 1)

\* add(models): a is [isList, items]; a single object is items = <<object>>.
SQLAlchemyMapper_add(database, a) ==
    IF ~a.isList /\ a.items[1] = None
    THEN Outcome(EmptyBag, InvalidArgument, database, 0, 0, 0)
    ELSE LET looped == add_loop(a.items, 1, <<>>)
             committed == session_commit(database, looped.pending)
         IN  IF looped.raised
             THEN Outcome(EmptyBag, InvalidArgument, database, 1, 0, 0)
             ELSE IF ~committed.ok
             THEN Outcome(EmptyBag, DatabaseError, database, 1, 0, 0)
             ELSE Outcome(EmptyBag, NoError, committed.db, 1, 1, 0)

\* A faulty get_all that forgets the is_current filter.
SQLAlchemyMapper_get_all_unfiltered(database, model_type) ==
    LET query_model == get_equivalent_sqlalchemy_model_type(model_type)
    IN  Outcome(convert_to_popo_models({row \in database : row.table = query_model}),
                NoError, database, 1, 1, 1)

SQLAlchemyMapper_get_all(database, model_type) ==
    LET query_model == get_equivalent_sqlalchemy_model_type(model_type)
    IN  IF ~IsCurrentModel(query_model)
        THEN Outcome(EmptyBag, AttributeError, database, 1, 0, 0)
        ELSE Outcome(convert_to_popo_models(
                        {row \in database : row.table = query_model /\ row.is_current # 0}),
                     NoError, database, 1, 1, 1)

\* A faulty retrieval that forgets the is_current filter.
SQLAlchemyMapper_get_by_property_value_list_unfiltered(database, model_type, property, values) ==
    LET query_model == get_equivalent_sqlalchemy_model_type(model_type)
    IN  IF Len(values) = 0 THEN Outcome(EmptyBag, NoError, database, 0, 0, 0)
        ELSE Outcome(convert_to_popo_models(
                        {row \in database : /\ row.table = query_model
                                            /\ row[property] \in Range(values)}),
                     NoError, database, 1, 1, 1)

\* A faulty retrieval that queries even for an empty list of values.
SQLAlchemyMapper_get_by_property_value_list_always_queries(database, model_type, property, values) ==
    LET query_model == get_equivalent_sqlalchemy_model_type(model_type)
    IN  IF ~IsCurrentModel(query_model)
        THEN Outcome(EmptyBag, UnsupportedOperation, database, 0, 0, 0)
        ELSE IF ~HasProperty(query_model, property)
        THEN Outcome(EmptyBag, KeyError, database, 1, 0, 0)
        ELSE Outcome(convert_to_popo_models(
                        {row \in database : /\ row.table = query_model
                                            /\ row[property] \in Range(values)
                                            /\ row.is_current # 0}),
                     NoError, database, 1, 1, 1)

SQLAlchemyMapper_get_by_property_value_list(database, model_type, property, values) ==
    LET query_model == get_equivalent_sqlalchemy_model_type(model_type)
    IN  IF ~IsCurrentModel(query_model)
        THEN Outcome(EmptyBag, UnsupportedOperation, database, 0, 0, 0)
        ELSE IF Len(values) = 0
        THEN Outcome(EmptyBag, NoError, database, 0, 0, 0)
        ELSE IF ~HasProperty(query_model, property)
        THEN Outcome(EmptyBag, KeyError, database, 1, 0, 0)
        ELSE Outcome(convert_to_popo_models(
                        {row \in database : /\ row.table = query_model
                                            /\ row[property] \in Range(values)
                                            /\ row.is_current # 0}),
                     NoError, database, 1, 1, 1)

\* A sequence listing the elements of a finite set (a Python list built from
\* a query result; its order is irrelevant to every use).
RECURSIVE ListOf(_)
ListOf(S) ==
    IF S = {} THEN <<>>
    ELSE LET x == CHOOSE y \in S : TRUE IN <<x>> \o ListOf(S \ {x})

\* Mapper.get_by_id(ids): retrieval by Property.INTERNAL_ID.
get_by_id(database, model_type, ids) ==
    SQLAlchemyMapper_get_by_property_value_list(database, model_type, "internal_id", ids)

\* column.in_(objects): an int binds as its value and None as NULL, which
\* equals no id.  Any other object needs a driver adapter to be bound.
BoundIds(objects) ==
    {objects[i].internal_id : i \in {j \in 1..Len(objects) : objects[j].type = "int"}}

NeedsAdapter(objects) ==
    \E i \in 1..Len(objects) : objects[i].type \notin {"int", "NoneType"}

\* The outcome of an association lookup once its link rows are known: the
\* far-side ids are resolved through get_by_id, in a second session.
ResolveLinked(database, model_type, far_ids) ==
    IF far_ids = {}
    THEN Outcome(EmptyBag, NoError, database, 1, 0, 1)
    ELSE LET got == get_by_id(database, model_type, ListOf(far_ids))
         IN  Outcome(got.result, got.err, database,
                     1 + got.opened, got.closed, 1 + got.queries)

\* A faulty lookup that follows link rows whether current or not.
SQLAlchemySampleMapper_get_associated_with_study_any_link(database, linkrows, a, driver_rejects) ==
    IF NeedsAdapter(a.items) /\ driver_rejects
    THEN Outcome(EmptyBag, DatabaseError, database, 1, 0, 1)
    ELSE ResolveLinked(database, "Sample",
            {l.sample_internal_id : l \in
                {k \in linkrows : k.study_internal_id \in BoundIds(a.items)}})

\* SQLAlchemySampleMapper.get_associated_with_study(study_ids).  The objects
\* given are bound as they are; driver_rejects is whether the driver refuses
\* to bind an object that is neither int nor None (otherwise it binds a value
\* equal to no id).
SQLAlchemySampleMapper_get_associated_with_study(database, linkrows, a, driver_rejects) ==
    IF NeedsAdapter(a.items) /\ driver_rejects
    THEN Outcome(EmptyBag, DatabaseError, database, 1, 0, 1)
    ELSE ResolveLinked(database, "Sample",
            {l.sample_internal_id : l \in
                {k \in linkrows : /\ k.study_internal_id \in BoundIds(a.items)
                                  /\ k.is_current # 0}})

\* SQLAlchemyStudyMapper.get_associated_with_sample(sample_ids).
SQLAlchemyStudyMapper_get_associated_with_sample(database, linkrows, a, driver_rejects) ==
    IF NeedsAdapter(a.items) /\ driver_rejects
    THEN Outcome(EmptyBag, DatabaseError, database, 1, 0, 1)
    ELSE ResolveLinked(database, "Study",
            {l.study_internal_id : l \in
                {k \in linkrows : /\ k.sample_internal_id \in BoundIds(a.items)
                                  /\ k.is_current # 0}})

(***************************************************************************)
(* _SQLAlchemyMapper (sequencescape/sqlalchemy/_sqlalchemy_mapper.py)      *)
(***************************************************************************)
\* issubclass(sqlalchemy_type, SQLAlchemyNamed)
IsNamed(sqlalchemy_type) == HasProperty(sqlalchemy_type, "name")

\* add(model): one model, checked against the mapper's model type; the
\* session is never closed.
Legacy_add(database, model_type, model) ==
    IF model.type # model_type
    THEN Outcome(EmptyBag, InvalidArgument, database, 0, 0, 0)
    ELSE LET committed == session_commit(database, <<convert_to_sqlalchemy_model(model)>>)
         IN  IF committed.ok
             THEN Outcome(EmptyBag, NoError, committed.db, 1, 0, 0)
             ELSE Outcome(EmptyBag, DatabaseError, database, 1, 0, 0)

\* get_many_by_name / get_many_by_internal_id / get_many_by_accession_number:
\* the three bodies differ only in the column queried.
Legacy_get_many_by(database, model_type, property, values) ==
    LET sqlalchemy_type == get_equivalent_sqlalchemy_model_type(model_type)
    IN  IF Len(values) = 0
        THEN Outcome(EmptyBag, NoError, database, 0, 0, 0)
        ELSE IF ~IsNamed(sqlalchemy_type)
        THEN Outcome(EmptyBag, UnsupportedOperation, database, 0, 0, 0)
        ELSE IF ~IsCurrentModel(sqlalchemy_type)
        THEN Outcome(EmptyBag, UnsupportedOperation, database, 0, 0, 0)
        ELSE IF ~HasProperty(sqlalchemy_type, property)
        THEN Outcome(EmptyBag, AttributeError, database, 1, 0, 0)
        ELSE Outcome(convert_to_popo_models(
                        {row \in database : /\ row.table = sqlalchemy_type
                                            /\ row[property] \in Range(values)
                                            /\ row.is_current = 1}),
                     NoError, database, 1, 1, 1)

\* get_many_by_given_id(ids, id_type)
Legacy_get_many_by_given_id(database, model_type, values, id_type) ==
    IF Len(values) = 0
    THEN Outcome(EmptyBag, NoError, database, 0, 0, 0)
    ELSE IF id_type \in Property
    THEN Legacy_get_many_by(database, model_type, id_type, values)
    ELSE Outcome(EmptyBag, InvalidArgument, database, 0, 0, 0)

\* Python truthiness of an identifier argument.
Truthy(value, none, falsy) == value # none /\ value # falsy

\* get(name, accession_number, internal_id): a is the three keywords, None
\* (NoneStr, NoneId) where one is not supplied.
Legacy_get(database, model_type, a) ==
    LET chosen ==
            IF Truthy(a.name, NoneStr, "") THEN <<"name", a.name>>
            ELSE IF Truthy(a.accession_number, NoneStr, "")
            THEN <<"accession_number", a.accession_number>>
            ELSE IF Truthy(a.internal_id, NoneId, 0)
            THEN <<"internal_id", a.internal_id>>
            ELSE <<>>
    IN  IF chosen = <<>>
        THEN Outcome(EmptyBag, InvalidArgument, database, 0, 0, 0)
        ELSE LET got == Legacy_get_many_by(database, model_type, chosen[1], <<chosen[2]>>)
             IN  IF got.err # NoError THEN got
                 ELSE IF BagCardinality(got.result) > 1
                 THEN Outcome(EmptyBag, IntegrityViolation, database,
                              got.opened, got.closed, got.queries)
                 ELSE got

\* The keyword arguments get_many hands to get for one (id_type, id_val)
\* pair, besides 'type': the keyword named by id_type, the others left None.
Keywords(id_type, id_val) ==
    [name |-> IF id_type = "name" THEN id_val ELSE NoneStr,
     accession_number |-> IF id_type = "accession_number" THEN id_val ELSE NoneStr,
     internal_id |-> IF id_type = "internal_id" THEN id_val ELSE NoneId]

\* The keywords get's signature accepts.
GetKeywords == {"name", "accession_number", "internal_id"}

\* The errors the code raises as ValueError.
IsValueError(error) ==
    error \in {InvalidArgument, UnsupportedOperation, IntegrityViolation}

\* get_many's loop from pair i on: get is called with the keywords 'type' and
\* id_type; a ValueError is printed and the pair skipped, any other exception
\* leaves the loop, a result that is not None is appended.
RECURSIVE get_many_loop(_, _, _, _, _)
get_many_loop(database, model_type, ids_as_tuples, i, sofar) ==
    IF i > Len(ids_as_tuples)
    THEN sofar
    ELSE LET keywords == {"type"} \cup
                 {p \in Property :
                     ids_as_tuples[i][p] # (IF p = "internal_id" THEN NoneId ELSE NoneStr)}
             got == IF keywords \subseteq GetKeywords
                    THEN Legacy_get(database, model_type, ids_as_tuples[i])
                    ELSE Outcome(EmptyBag, TypeError, database, 0, 0, 0)
             sessions == Outcome(sofar.result, NoError, database,
                                 sofar.opened + got.opened, sofar.closed + got.closed,
                                 sofar.queries + got.queries)
         IN  IF IsValueError(got.err)
             THEN get_many_loop(database, model_type, ids_as_tuples, i + 1, sessions)
             ELSE IF got.err # NoError
             THEN [sessions EXCEPT !.result = EmptyBag, !.err = got.err]
             ELSE get_many_loop(database, model_type, ids_as_tuples, i + 1,
                                [sessions EXCEPT !.result = sofar.result (+) got.result])

\* get_many(ids_as_tuples)
Legacy_get_many(database, model_type, ids_as_tuples) ==
    get_many_loop(database, model_type, ids_as_tuples, 1,
                  Outcome(EmptyBag, NoError, database, 0, 0, 0))

\* SQLAlchemyStudyMapper.get_many_associated_with_samples(sample_internal_ids):
\* its first statement reads self.__get_database_connector, a private name of
\* _SQLAlchemyMapper that the subclass body resolves against its own class.
Legacy_get_many_associated_with_samples(database, linkrows, a) ==
    Outcome(EmptyBag, AttributeError, database, 0, 0, 0)

(***************************************************************************)
(* Inputs                                                                  *)
(***************************************************************************)
SeqsUpTo(S, n) == UNION {[1..k -> S] : k \in 0..n}

\* The models handed to add: samples and studies of every id, current or not.
Samples == {Object("Sample", i, n, an, c) :
               i \in InternalIds, n \in Names, an \in AccessionNumbers, c \in BOOLEAN}
Studies == {Object("Study", i, n, an, c) :
               i \in InternalIds, n \in Names, an \in AccessionNumbers, c \in BOOLEAN}
Models == Samples \cup Studies

Single(object) == [isList |-> FALSE, items |-> <<object>>]
List(objects) == [isList |-> TRUE, items |-> objects]

AddArgs ==
    {Single(o) : o \in Models \cup {None, NonModel}}
    \cup {List(s) : s \in SeqsUpTo(Models \cup {NonModel}, MaxBatch)}

PropertyValues(property) ==
    CASE property = "internal_id" -> InternalIds
      [] property = "name" -> Names \cup {"b"}
      [] property = "accession_number" -> AccessionNumbers

ValueLists(property) == SeqsUpTo(PropertyValues(property), MaxValues)

\* The keywords of get: each supplied or not; "" and 0 are the falsy values.
GetArgs ==
    [name : {NoneStr, "", "a"}, accession_number : {NoneStr, "x"},
     internal_id : {NoneId} \cup InternalIds]

\* The (id type, id value) pairs handed to get_many, as the keywords they
\* become.
IdPairs ==
    {Keywords("name", n) : n \in Names}
    \cup {Keywords("accession_number", an) : an \in AccessionNumbers}
    \cup {Keywords("internal_id", i) : i \in InternalIds}

\* What the association lookups are given: a study or sample (stored or never
\* stored), a bare internal id or None, or a list of stored ones and ids.
Unstored(type) == Object(type, NoneId, NoneStr, NoneStr, TRUE)
Stored(type) == Object(type, 0, "a", "x", TRUE)
AssociationObjects(type) == {IntObject(i) : i \in InternalIds} \cup {Stored(type)}
AssociationArgs(type) ==
    {Single(o) : o \in AssociationObjects(type) \cup {Unstored(type), None}}
    \cup {List(s) : s \in SeqsUpTo(AssociationObjects(type), MaxGiven)}

\* The stores a database can hold: per table, at most one row per internal id.
Rows == {convert_to_sqlalchemy_model(model) : model \in Models}
Stores ==
    {S \in SUBSET Rows :
        \A r1, r2 \in S : (r1.table = r2.table /\ r1.internal_id = r2.internal_id) => r1 = r2}

LinkRows ==
    [study_internal_id : InternalIds, sample_internal_id : InternalIds, is_current : {0, 1}]
LinkTables == {L \in SUBSET LinkRows : Cardinality(L) <= MaxLinks}

NoArg == [isList |-> FALSE, items |-> <<>>]
PropertyArg(property, values) == [property |-> property, values |-> values]

(***************************************************************************)
(* Actions: a caller makes one call at a time and takes its outcome before *)
(* the next (single-threaded, synchronous request/response).               *)
(***************************************************************************)
Idle == op = "idle"

Record(name, m, a, outcome) ==
    /\ op' = name
    /\ mapper' = m
    /\ arg' = a
    /\ result' = outcome.result
    /\ err' = outcome.err
    /\ db' = outcome.db
    /\ opened' = outcome.opened
    /\ closed' = outcome.closed
    /\ queries' = outcome.queries

Persisted(a, outcome) ==
    IF outcome.err = NoError THEN {o \in Range(a.items) : IsModel(o)} ELSE {}

\* Each action is a call on a mapper of one of the given model types.
Add(mappers) ==
    /\ Idle
    /\ \E m \in mappers, a \in AddArgs :
          LET outcome == SQLAlchemyMapper_add(db, a)
          IN  /\ Record("add", m, a, outcome)
              /\ added' = added \cup Persisted(a, outcome)
    /\ UNCHANGED links

LegacyAdd(mappers) ==
    /\ Idle
    /\ \E m \in mappers, model \in Models \cup {None, NonModel} :
          LET outcome == Legacy_add(db, m, model)
          IN  /\ Record("legacy_add", m, Single(model), outcome)
              /\ added' = added \cup Persisted(Single(model), outcome)
    /\ UNCHANGED links

GetAll(mappers) ==
    /\ Idle
    /\ \E m \in mappers : Record("get_all", m, NoArg, SQLAlchemyMapper_get_all(db, m))
    /\ UNCHANGED <<links, added>>

GetByPropertyValueList(mappers) ==
    /\ Idle
    /\ \E m \in mappers, property \in Property :
          \E values \in ValueLists(property) :
             Record("_get_by_property_value_list", m, PropertyArg(property, values),
                    SQLAlchemyMapper_get_by_property_value_list(db, m, property, values))
    /\ UNCHANGED <<links, added>>

GetAssociatedWithStudy ==
    /\ Idle
    /\ \E a \in AssociationArgs("Study"), driver_rejects \in BOOLEAN :
          Record("get_associated_with_study", "Sample", a,
                 SQLAlchemySampleMapper_get_associated_with_study(db, links, a, driver_rejects))
    /\ UNCHANGED <<links, added>>

GetAssociatedWithSample ==
    /\ Idle
    /\ \E a \in AssociationArgs("Sample"), driver_rejects \in BOOLEAN :
          Record("get_associated_with_sample", "Study", a,
                 SQLAlchemyStudyMapper_get_associated_with_sample(db, links, a, driver_rejects))
    /\ UNCHANGED <<links, added>>

LegacyGetManyBy(mappers) ==
    /\ Idle
    /\ \E m \in mappers, property \in Property :
          \E values \in ValueLists(property) :
             Record("get_many_by", m, PropertyArg(property, values),
                    Legacy_get_many_by(db, m, property, values))
    /\ UNCHANGED <<links, added>>

LegacyGetManyByGivenId(mappers) ==
    /\ Idle
    /\ \E m \in mappers, id_type \in Property \cup {"other"} :
          \E values \in ValueLists(IF id_type \in Property THEN id_type ELSE "name") :
             Record("get_many_by_given_id", m, PropertyArg(id_type, values),
                    Legacy_get_many_by_given_id(db, m, values, id_type))
    /\ UNCHANGED <<links, added>>

LegacyGet(mappers) ==
    /\ Idle
    /\ \E m \in mappers, a \in GetArgs : Record("get", m, a, Legacy_get(db, m, a))
    /\ UNCHANGED <<links, added>>

LegacyGetMany(mappers) ==
    /\ Idle
    /\ \E m \in mappers, ids_as_tuples \in SeqsUpTo(IdPairs, MaxPairs) :
          Record("get_many", m, List(ids_as_tuples), Legacy_get_many(db, m, ids_as_tuples))
    /\ UNCHANGED <<links, added>>

LegacyGetManyAssociatedWithSamples ==
    /\ Idle
    /\ \E s \in SeqsUpTo({IntObject(i) : i \in InternalIds}, 1) :
          Record("get_many_associated_with_samples", "Study", List(s),
                 Legacy_get_many_associated_with_samples(db, links, List(s)))
    /\ UNCHANGED <<links, added>>

\* The caller takes the outcome of the call.
Return ==
    /\ ~Idle
    /\ op' = "idle"
    /\ mapper' = "Sample"
    /\ arg' = NoArg
    /\ result' = EmptyBag
    /\ err' = NoError
    /\ opened' = 0
    /\ closed' = 0
    /\ queries' = 0
    /\ UNCHANGED <<db, links, added>>

NoCall ==
    /\ op = "idle"
    /\ mapper = "Sample"
    /\ arg = NoArg
    /\ result = EmptyBag
    /\ err = NoError
    /\ opened = 0
    /\ closed = 0
    /\ queries = 0

\* A fresh store, filled and read through the mappers.
Init ==
    /\ db = {}
    /\ links = {}
    /\ added = {}
    /\ NoCall

Next ==
    \/ Add({"Sample", "Study"})
    \/ LegacyAdd({"Sample", "Study"})
    \/ GetAll(ModelTypes)
    \/ GetByPropertyValueList(ModelTypes)
    \/ LegacyGetManyBy(ModelTypes)
    \/ LegacyGetManyByGivenId(ModelTypes)
    \/ Return

Spec == Init /\ [][Next]_vars

\* Any store the schema allows, read through the mappers.
InitStore ==
    /\ db \in Stores
    /\ links \in LinkTables
    /\ added = {}
    /\ NoCall

NextStore ==
    \/ GetAll({"Sample", "Study"})
    \/ GetByPropertyValueList({"Sample", "Study"})
    \/ LegacyGetManyBy({"Sample", "Study"})
    \/ LegacyGet({"Sample", "Study"})
    \/ LegacyGetMany({"Sample", "Study"})
    \/ GetAssociatedWithStudy
    \/ GetAssociatedWithSample
    \/ LegacyGetManyAssociatedWithSamples
    \/ Return

SpecStore == InitStore /\ [][NextStore]_vars

(***************************************************************************)
(* Properties                                                              *)
(***************************************************************************)
\* The models of one type among a set of models, as a retrieval returns them.
OfType(models, type) == {e \in models : e.type = type}

\* C1 (as amended): on a fresh store, get_all on a mapper returns exactly the
\* models of its type added so far whose is_current is true, each equal to
\* what was added and each once.
C1_GetAllReturnsCurrentAdded ==
    (op = "get_all" /\ err = NoError) =>
        result = SetToBag({e \in OfType(added, mapper) : e.is_current})

C1_Witness ==
    /\ op = "get_all"
    /\ err = NoError
    /\ \E e1, e2 \in OfType(added, mapper) : e1.is_current /\ ~e2.is_current
    /\ BagCardinality(result) = 1

\* C1 (as stated): get_all returns exactly the models of the mapper's type
\* added so far, every one of them.
C1_GetAllReturnsAllAdded ==
    (op = "get_all" /\ err = NoError) => result = SetToBag(OfType(added, mapper))

\* C2 (as amended): retrieval by internal id with the list V, through either
\* mapper class, returns exactly the added models of the mapper's type that
\* are current and whose internal id is in V; ids never added contribute
\* nothing and raise no error.
ByInternalId ==
    /\ op \in {"_get_by_property_value_list", "get_many_by"}
    /\ arg.property = "internal_id"
    /\ mapper \in {"Sample", "Study"}

EmptyRetrieval ==
    /\ op \in {"_get_by_property_value_list", "get_many_by", "get_many_by_given_id"}
    /\ Len(arg.values) = 0

C6_EmptyListShortCircuits ==
    EmptyRetrieval =>
        /\ opened = 0
        /\ queries = 0
        /\ result = EmptyBag
        /\ err = IF op = "_get_by_property_value_list" /\ mapper = "Unversioned"
                 THEN UnsupportedOperation ELSE NoError

C6_Witness ==
    /\ EmptyRetrieval
    /\ op = "_get_by_property_value_list"
    /\ err = NoError
    /\ \E row \in db : row.table = get_equivalent_sqlalchemy_model_type(mapper)
                       /\ row.is_current = 1

\* C6 (as stated): a retrieval given an empty list of values returns the
\* empty sequence, without error, session or query, on every mapper.
C6_EmptyListAlwaysReturnsEmpty ==
    EmptyRetrieval => (err = NoError /\ result = EmptyBag /\ opened = 0 /\ queries = 0)

\* C9 (as stated): add given None or a single object that is not a model of
\* the mapper's own type raises InvalidArgument and leaves every table as it
\* was.
C9_AddRejectsForeignObjects ==
    [][(/\ op' \in {"add", "legacy_add"}
        /\ ~arg'.isList
        /\ arg'.items[1].type # mapper')
       => (err' = InvalidArgument /\ db' = db /\ links' = links)]_vars

\* C10: add given a list persists either the rows of every element of the
\* list (and raises nothing) or, when an element cannot be converted or
\* inserted, no row at all; an empty list persists nothing and raises
\* nothing.
C10_AddListIsAtomic ==
    [][(op' = "add" /\ arg'.isList) =>
          \/ /\ err' = NoError
             /\ \A i \in 1..Len(arg'.items) : IsModel(arg'.items[i])
             /\ db' = db \cup {convert_to_sqlalchemy_model(o) : o \in Range(arg'.items)}
             /\ opened' = 1
          \/ /\ err' # NoError
             /\ Len(arg'.items) > 0
             /\ db' = db]_vars

C10_Witness ==
    /\ op = "add"
    /\ arg.isList
    /\ Len(arg.items) = 2
    /\ err # NoError
    /\ IsModel(arg.items[1])
    /\ convert_to_sqlalchemy_model(arg.items[1]) \notin db
    /\ db # {}

\* The current models of one type held by the store.
CurrentModels(type) ==
    {convert_to_popo_model(row) :
        row \in {r \in db : /\ r.table = get_equivalent_sqlalchemy_model_type(type)
                            /\ r.is_current = 1}}

\* The internal ids of the studies or samples given to an association lookup.
GivenIds == {arg.items[i].internal_id : i \in 1..Len(arg.items)}

\* The call was given models of one type, each with an internal id.
GivenAre(type) ==
    \A i \in 1..Len(arg.items) :
        arg.items[i].type = type /\ arg.items[i].internal_id # NoneId

\* The samples with a current link to a given study, and the studies with a
\* current link to a given sample.
LinkedSamples ==
    {e \in CurrentModels("Sample") :
        \E l \in links : /\ l.is_current = 1
                         /\ l.sample_internal_id = e.internal_id
                         /\ l.study_internal_id \in GivenIds}
LinkedStudies ==
    {e \in CurrentModels("Study") :
        \E l \in links : /\ l.is_current = 1
                         /\ l.study_internal_id = e.internal_id
                         /\ l.sample_internal_id \in GivenIds}

\* C3: whatever the store holds, every model a retrieval returns is a current
\* row of the mapper's table, and every model an association lookup returns
\* is reached through a current link row.
C3_RetrievalsReturnOnlyCurrent ==
    /\ \A e \in BagToSet(result) : e \in CurrentModels(mapper)
    /\ op = "get_associated_with_study" => BagToSet(result) \subseteq LinkedSamples
    /\ op \in {"get_associated_with_sample", "get_many_associated_with_samples"} =>
          BagToSet(result) \subseteq LinkedStudies

C3_Witness ==
    /\ op = "get_associated_with_study"
    /\ BagCardinality(result) = 1
    /\ \E l \in links, row \in db :
          /\ l.is_current = 0
          /\ l.study_internal_id \in GivenIds
          /\ row.table = "SQLAlchemySample"
          /\ row.internal_id = l.sample_internal_id
          /\ row.is_current = 1
          /\ convert_to_popo_model(row) \notin BagToSet(result)

\* C4 (as stated): get_associated_with_study, given a study or a list of
\* studies, raises nothing and returns exactly the samples with a current link
\* to one of them, each once.
C4_AssociatedWithStudyReturnsLinkedSamples ==
    (op = "get_associated_with_study" /\ GivenAre("Study")) =>
        (err = NoError /\ result = SetToBag(LinkedSamples))

\* C5 (as stated): get_associated_with_sample, and the older
\* get_many_associated_with_samples, raise nothing and return exactly the
\* current studies with a current link to one of the given samples.
C5_AssociatedWithSampleReturnsLinkedStudies ==
    \/ op = "get_associated_with_sample" /\ GivenAre("Sample")
    \/ op = "get_many_associated_with_samples"
    =>
        (err = NoError /\ result = SetToBag(LinkedStudies))

\* The identifiers a get call supplies.
Supplied ==
    {p \in Property : arg[p] # (IF p = "internal_id" THEN NoneId ELSE NoneStr)}

\* C7 (as stated): get raises InvalidArgument when it is given none or more
\* than one of the three identifiers, and never raises it when given exactly
\* one.
C7_GetNeedsExactlyOneIdentifier ==
    op = "get" => (err = InvalidArgument <=> Cardinality(Supplied) # 1)

\* The current rows of the mapper's table that match the one identifier of a
\* get call.
Matching ==
    {e \in CurrentModels(mapper) : \A p \in Supplied : e[p] = arg[p]}

\* C8 (as stated): get given one identifier returns null when no current row
\* matches it, the matching model when one does, and raises
\* IntegrityViolation when several do.
C8_GetOutcomeFollowsMatchCount ==
    (op = "get" /\ Cardinality(Supplied) = 1) =>
        IF Cardinality(Matching) > 1
        THEN err = IntegrityViolation
        ELSE err = NoError /\ result = SetToBag(Matching)

\* C11 (as stated): every public operation closes every session it opens,
\* whether it returns a result, returns early or fails, so that no session is
\* left open when the caller takes the outcome.
C11_EveryCallClosesItsSessions ==
    op \in {"add", "legacy_add", "get_all", "_get_by_property_value_list",
            "get_associated_with_study", "get_associated_with_sample"}
    => opened = closed

\* C12 (as stated): retrieval by property values with a non-empty list is
\* rejected with UnsupportedOperation exactly when the mapper's type lacks
\* is_current or lacks the property queried, by the generic retrieval and by
\* get_many_by_name / _accession_number / _internal_id alike; a type that
\* has both is served.
C12_CapabilityChecksFollowTheProperty ==
    (/\ op \in {"_get_by_property_value_list", "get_many_by"}
     /\ Len(arg.values) > 0)
    =>
        LET sqlalchemy_type == get_equivalent_sqlalchemy_model_type(mapper)
        IN  IF /\ IsCurrentModel(sqlalchemy_type)
               /\ HasProperty(sqlalchemy_type, arg.property)
            THEN err = NoError
            ELSE err = UnsupportedOperation

\* The current rows of the mapper's table that match pair i of a get_many
\* call.
PairMatching(i) ==
    {e \in CurrentModels(mapper) :
        \A p \in Property :
            arg.items[i][p] # (IF p = "internal_id" THEN NoneId ELSE NoneStr)
                => e[p] = arg.items[i][p]}

\* What pairs i.. of a get_many call contribute: the match of each pair that
\* has exactly one.
RECURSIVE SingleMatches(_)
SingleMatches(i) ==
    IF i > Len(arg.items)
    THEN EmptyBag
    ELSE (IF Cardinality(PairMatching(i)) = 1 THEN SetToBag(PairMatching(i)) ELSE EmptyBag)
         (+) SingleMatches(i + 1)

\* C13 (as stated): get_many resolves each (id type, id value) pair on its
\* own: it returns the single match of every pair that has one, nothing for a
\* pair with no match or with several, and never fails because of one pair.
C13_GetManyResolvesEachPair ==
    op = "get_many" => (err = NoError /\ result = SingleMatches(1))

\* C14 (as stated): get_associated_with_study given a study that has no
\* internal id fails with InvalidArgument, whatever the store holds.
C14_StudyWithoutIdIsRejected ==
    (/\ op = "get_associated_with_study"
     /\ \E i \in 1..Len(arg.items) : arg.items[i] = Unstored("Study"))
    => err = InvalidArgument

====
